---- MODULE Spec2Model ----
(***************************************************************************)
(* Model of app/monzo_transactions.py: the pipeline run by main()          *)
(*   test_authentication -> fetch_transactions -> categorize_transactions  *)
(*   -> console summary -> save_to_excel.                                  *)
(*                                                                         *)
(* Text is a sequence of one-character strings.  A float holding an amount *)
(* in pounds is carried as its exact number of hundredths, so x / 100.0 of *)
(* an integer number of pence x is carried as x; the f'{x:.2f}' rendering  *)
(* turns it into digits again.                                             *)
(***************************************************************************)
EXTENDS Integers, Sequences, FiniteSets, TLC

VARIABLES pc, authStatus, fetchStatus, transactions, categories, df, xlsx, console

vars == <<pc, authStatus, fetchStatus, transactions, categories, df, xlsx, console>>

(* ------------------------------ bounds --------------------------------- *)
MaxTx == 2
MaxDescLen == 20

(* ------------------------------ text ----------------------------------- *)
LowerCase == <<"a","b","c","d","e","f","g","h","i","j","k","l","m",
               "n","o","p","q","r","s","t","u","v","w","x","y","z">>

UpperCase == <<"A","B","C","D","E","F","G","H","I","J","K","L","M",
               "N","O","P","Q","R","S","T","U","V","W","X","Y","Z">>

Digits == <<"0","1","2","3","4","5","6","7","8","9">>

Range(s) == { s[i] : i \in DOMAIN s }

IsLower(c) == c \in Range(LowerCase)

IsUpper(c) == c \in Range(UpperCase)

IsCased(c) == IsLower(c) \/ IsUpper(c)

upper(c) == IF IsLower(c) THEN UpperCase[CHOOSE i \in 1..26 : LowerCase[i] = c] ELSE c

lower(c) == IF IsUpper(c) THEN LowerCase[CHOOSE i \in 1..26 : UpperCase[i] = c] ELSE c

\* str.replace(old, new) for one-character old and new
replace(s, old, new) == [i \in 1..Len(s) |-> IF s[i] = old THEN new ELSE s[i]]

\* str.title(): a cased character is upper-cased when the character before it
\* is not cased, lower-cased otherwise
title(s) ==
    [i \in 1..Len(s) |->
        IF IsCased(s[i])
        THEN IF i > 1 /\ IsCased(s[i-1]) THEN lower(s[i]) ELSE upper(s[i])
        ELSE s[i]]

\* str.capitalize(): first character upper-cased, the rest lower-cased
capitalize(s) == [i \in 1..Len(s) |-> IF i = 1 THEN upper(s[i]) ELSE lower(s[i])]

\* s[:n]
Prefix(s, n) == SubSeq(s, 1, IF Len(s) < n THEN Len(s) ELSE n)

RECURSIVE Decimal(_)
Decimal(n) == IF n < 10 THEN <<Digits[n + 1]>>
              ELSE Decimal(n \div 10) \o <<Digits[(n % 10) + 1]>>

\* f'£{x:.2f}' of a non-negative amount x carried in hundredths
FormatPounds(x) ==
    <<"£">> \o Decimal(x \div 100) \o <<".">> \o <<Digits[((x % 100) \div 10) + 1], Digits[(x % 10) + 1]>>

(* ----------------------------- cells ----------------------------------- *)
\* A cell of the sheet is a str or a float.
Str(s) == [t |-> "str", s |-> s, v |-> 0]

Float(x) == [t |-> "float", s |-> <<>>, v |-> x]

EmptyCell == Str(<<>>)

(* ------------------------ dict with insertion order -------------------- *)
EmptyDict == [keys |-> <<>>, map |-> <<>>]

DictSet(d, k, val) ==
    [keys |-> IF k \in Range(d.keys) THEN d.keys ELSE Append(d.keys, k),
     map  |-> [x \in (DOMAIN d.map) \cup {k} |-> IF x = k THEN val ELSE d.map[x]]]

\* dict.get(key, default) of a JSON object
get(obj, key, default) == IF key \in DOMAIN obj THEN obj[key] ELSE default

RECURSIVE SumAmounts(_)
SumAmounts(s) == IF s = <<>> THEN 0 ELSE s[1].amount + SumAmounts(Tail(s))

(* ------------------------- categorize_transactions --------------------- *)
all_categories ==
    << <<"e","a","t","i","n","g","_","o","u","t">>,
       <<"g","r","o","c","e","r","i","e","s">>,
       <<"b","i","l","l","s">>,
       <<"s","h","o","p","p","i","n","g">>,
       <<"e","n","t","e","r","t","a","i","n","m","e","n","t">>,
       <<"t","r","a","n","s","p","o","r","t">>,
       <<"u","n","c","a","t","e","g","o","r","i","z","e","d">> >>

uncategorized == all_categories[7]

NoDescription == <<"N","o"," ","d","e","s","c","r","i","p","t","i","o","n">>

DescWidth == 18

\* category.replace('_', ' ').title()
FormatCategory(c) == title(replace(c, "_", " "))

RECURSIVE InitBuckets(_, _)
InitBuckets(d, i) ==
    IF i > Len(all_categories) THEN d
    ELSE InitBuckets(DictSet(d, FormatCategory(all_categories[i]), <<>>), i + 1)

\* transaction['amount'] / 100.0, carried in hundredths
ToPounds(pence) == pence

\* mutant: a zero amount taken for an expense
IsExpense_orZero(amount) == amount <= 0

IsExpense(amount) == amount < 0

\* mutant: the description cut one character short
StoredDescription_short(t) == Prefix(get(t, "description", NoDescription), DescWidth - 1)

StoredDescription(t) == Prefix(get(t, "description", NoDescription), DescWidth)

StoredAmount(amount) == 0 - amount

Expense(t) == [description |-> StoredDescription(t), amount |-> StoredAmount(ToPounds(t.amount))]

BucketKey(t) == FormatCategory(get(t, "category", uncategorized))

\* The loop of lines 56-65 from transaction i on; categories[category] of a
\* missing key raises KeyError and leaves the loop.
RECURSIVE CategorizeLoop(_, _, _)
CategorizeLoop(cats, txs, i) ==
    IF i > Len(txs) THEN [categories |-> cats, error |-> "none"]
    ELSE LET t == txs[i]
             amount == ToPounds(t.amount)
             category == BucketKey(t)
         IN  IF IsExpense(amount)
             THEN IF category \in DOMAIN cats.map
                  THEN CategorizeLoop(
                         [cats EXCEPT !.map[category] = Append(@, Expense(t))], txs, i + 1)
                  ELSE [categories |-> cats, error |-> "KeyError"]
             ELSE CategorizeLoop(cats, txs, i + 1)

categorize_transactions(txs) == CategorizeLoop(InitBuckets(EmptyDict, 1), txs, 1)

(* ------------------------------ save_to_excel -------------------------- *)
TotalLabel == <<"T","o","t","a","l"," ","E","x","p","e","n","d","i","t","u","r","e">>

\* the character U+2211 (the summation sign), which a string of the module cannot hold
Sigma == "U+2211"

SubtotalLabel(category) == <<Sigma, " ">> \o category

AmountHeader(category) == <<"£", " ">> \o category

\* mutant: the total row put before the entries of the category
CategoryData_totalFirst(cats, category) ==
    LET bucket == cats.map[category]
        total_for_category == SumAmounts(bucket)
    IN  [Description |-> <<Str(SubtotalLabel(category))>>
                           \o [i \in 1..Len(bucket) |-> Str(bucket[i].description)],
         Amount      |-> <<Str(FormatPounds(total_for_category))>>
                           \o [i \in 1..Len(bucket) |-> Float(bucket[i].amount)]]

\* lines 78-98: the two lists of one category, its total row appended
CategoryData(cats, category) ==
    LET bucket == cats.map[category]
        total_for_category == SumAmounts(bucket)
    IN  [Description |-> [i \in 1..Len(bucket) |-> Str(bucket[i].description)]
                           \o <<Str(SubtotalLabel(category))>>,
         Amount      |-> [i \in 1..Len(bucket) |-> Float(bucket[i].amount)]
                           \o <<Str(FormatPounds(total_for_category))>>]

all_data(cats) == [k \in 1..Len(cats.keys) |-> CategoryData(cats, cats.keys[k])]

\* lines 74, 92: total_expenditure += total_for_category over the first k categories
RECURSIVE TotalUpTo(_, _)
TotalUpTo(cats, k) ==
    IF k = 0 THEN 0
    ELSE TotalUpTo(cats, k - 1) + SumAmounts(cats.map[cats.keys[k]])

\* mutant: the total assigned instead of accumulated
total_expenditure_last(cats) ==
    IF cats.keys = <<>> THEN 0 ELSE SumAmounts(cats.map[cats.keys[Len(cats.keys)]])

total_expenditure(cats) == TotalUpTo(cats, Len(cats.keys))

\* lines 101-104
all_columns(cats) ==
    [j \in 1..(2 * Len(cats.keys)) |->
        IF j % 2 = 1 THEN cats.keys[(j + 1) \div 2]
        ELSE AmountHeader(cats.keys[j \div 2])]

\* mutant: the length of the first category taken for the maximum
max_rows_first(data) == Len(data[1].Description)

\* line 110
max_rows(data) ==
    CHOOSE m \in { Len(data[k].Description) : k \in DOMAIN data } :
        \A k \in DOMAIN data : Len(data[k].Description) <= m

Blanks(n) == [j \in 1..n |-> EmptyCell]

\* mutant: a category that ran out repeats its last entry
DataRow_repeat(data, i, ncols) ==
    [j \in 1..(2 * Len(data)) |->
        LET category_data == data[(j + 1) \div 2]
            column == IF j % 2 = 1 THEN category_data.Description
                      ELSE category_data.Amount
        IN  IF i < Len(column) THEN column[i + 1] ELSE column[Len(column)]]

\* lines 114-120: row i (counted from 0) of the sheet
DataRow(data, i, ncols) ==
    LET row == [j \in 1..(2 * Len(data)) |->
                  LET category_data == data[(j + 1) \div 2]
                      column == IF j % 2 = 1 THEN category_data.Description
                                ELSE category_data.Amount
                  IN  IF i < Len(column) THEN column[i + 1] ELSE EmptyCell]
    IN  IF Len(row) < ncols THEN row \o Blanks(ncols - Len(row)) ELSE row

\* line 126
total_row(total, ncols) ==
    <<Str(TotalLabel), Str(FormatPounds(total))>> \o Blanks(ncols - 2)

\* lines 71-127: the DataFrame handed to the writer
BuildFrame(cats) ==
    LET data == all_data(cats)
        columns == all_columns(cats)
        n == max_rows(data)
    IN  [columns |-> columns,
         rows |-> [i \in 1..n |-> DataRow(data, i - 1, Len(columns))]
                    \o <<total_row(total_expenditure(cats), Len(columns))>>]

(* ------------------------------ inputs --------------------------------- *)
StatusCodes == {200, 401}

Amounts == {-1250, -5, 0, 1200}

LongDescription == [i \in 1..MaxDescLen |-> LowerCase[i]]

\* a known key, a spelling that formats to a known name, a key outside the list
Categories == { all_categories[1],
                <<"B","I","L","L","S">>,
                <<"g","e","n","e","r","a","l">> }

\* JSON objects with the optional keys present or absent
Transaction ==
         { [amount |-> a] : a \in Amounts }
    \cup { [amount |-> a, category |-> c] : a \in Amounts, c \in Categories }
    \cup { [amount |-> a, description |-> LongDescription] : a \in Amounts }
    \cup { [amount |-> a, description |-> LongDescription, category |-> all_categories[1]] :
              a \in Amounts }

TransactionLists == UNION { [1..k -> Transaction] : k \in 0..MaxTx }

\* JSON bodies of a 200 answer of the listing endpoint
Bodies == { [transactions |-> txs] : txs \in TransactionLists } \cup { [message |-> <<>>] }

NoFile == [columns |-> <<>>, rows |-> <<>>, width |-> 0]

Msg(m, text) == [msg |-> m, text |-> text]

(* ------------------------------ main ----------------------------------- *)
Init ==
    /\ pc = "test_authentication"
    /\ authStatus = 0
    /\ fetchStatus = 0
    /\ transactions = <<>>
    /\ categories = EmptyDict
    /\ df = NoFile
    /\ xlsx = NoFile
    /\ console = <<>>

\* lines 22-28, called at line 176; response.json() raises on a body that is
\* not JSON
TestAuthentication ==
    /\ pc = "test_authentication"
    /\ \E status \in StatusCodes, is_json \in BOOLEAN :
         /\ authStatus' = status
         /\ IF status = 200
            THEN /\ console' = Append(console, Msg("Authentication successful.", <<>>))
                 /\ pc' = "fetch_transactions"
            ELSE IF is_json
            THEN /\ console' = Append(console, Msg("Authentication failed", <<>>))
                 /\ pc' = "fetch_transactions"
            ELSE /\ console' = console
                 /\ pc' = "raised_in_test_authentication"
    /\ UNCHANGED <<fetchStatus, transactions, categories, df, xlsx>>

\* mutant: the transactions of the body returned whatever the status
FetchResult_anyStatus(status, body) == get(body, "transactions", <<>>)

\* what fetch_transactions returns (lines 31-43) for a decodable answer
FetchResult(status, body) ==
    IF status = 200 THEN get(body, "transactions", <<>>) ELSE <<>>

\* lines 179-181, 192-193: the call of fetch_transactions and the branch on
\* its result
FetchTransactions ==
    /\ pc = "fetch_transactions"
    /\ \E status \in StatusCodes, is_json \in BOOLEAN, body \in Bodies :
         /\ fetchStatus' = status
         /\ IF status = 200 /\ ~is_json
            THEN /\ pc' = "raised_in_fetch_transactions"
                 /\ UNCHANGED <<transactions, console>>
            ELSE LET result == FetchResult(status, body)
                     log == IF status = 200 THEN console
                            ELSE Append(console, Msg("Error fetching transactions", <<>>))
                 IN  /\ transactions' = result
                     /\ IF result # <<>>
                        THEN /\ pc' = "categorize_transactions"
                             /\ console' = log
                        ELSE /\ pc' = "no_transactions"
                             /\ console' = Append(log, Msg("No transactions found.", <<>>))
    /\ UNCHANGED <<authStatus, categories, df, xlsx>>

\* lines 186-188: one console line per category
RECURSIVE Summary(_, _)
Summary(cats, k) ==
    IF k > Len(cats.keys) THEN <<>>
    ELSE <<Msg("total", capitalize(cats.keys[k]) \o <<":", " ">>
                          \o FormatPounds(SumAmounts(cats.map[cats.keys[k]])))>>
         \o Summary(cats, k + 1)

\* lines 182-188
Categorize ==
    /\ pc = "categorize_transactions"
    /\ LET r == categorize_transactions(transactions)
       IN  /\ categories' = r.categories
           /\ IF r.error = "none"
              THEN /\ pc' = "save_to_excel"
                   /\ console' = console \o Summary(r.categories, 1)
              ELSE /\ pc' = "raised_in_categorize_transactions"
                   /\ console' = console
    /\ UNCHANGED <<authStatus, fetchStatus, transactions, df, xlsx>>

\* lines 191, 70-157
SaveToExcel ==
    /\ pc = "save_to_excel"
    /\ df' = BuildFrame(categories)
    /\ xlsx' = [columns |-> df'.columns, rows |-> df'.rows, width |-> 140 \div 7]
    /\ console' = Append(console, Msg("Results saved to 'monzo_transactions.xlsx'.", <<>>))
    /\ pc' = "done"
    /\ UNCHANGED <<authStatus, fetchStatus, transactions, categories>>

Next == TestAuthentication \/ FetchTransactions \/ Categorize \/ SaveToExcel

Spec == Init /\ [][Next]_vars

(* ----------------------------- properties ------------------------------ *)
\* the seven display names, in the order of the enumeration
DisplayNames ==
    << <<"E","a","t","i","n","g"," ","O","u","t">>,
       <<"G","r","o","c","e","r","i","e","s">>,
       <<"B","i","l","l","s">>,
       <<"S","h","o","p","p","i","n","g">>,
       <<"E","n","t","e","r","t","a","i","n","m","e","n","t">>,
       <<"T","r","a","n","s","p","o","r","t">>,
       <<"U","n","c","a","t","e","g","o","r","i","z","e","d">> >>

CategorizeReturned == pc \in {"save_to_excel", "done"}

CategorizeRaised == pc = "raised_in_categorize_transactions"

FetchReturned ==
    pc \in {"categorize_transactions", "save_to_excel", "done", "no_transactions",
            "raised_in_categorize_transactions"}

IsDebit(t) == t.amount < 0

Debits == { i \in DOMAIN transactions : IsDebit(transactions[i]) }

RECURSIVE DebitPence(_)
DebitPence(txs) ==
    IF txs = <<>> THEN 0
    ELSE (IF txs[1].amount < 0 THEN 0 - txs[1].amount ELSE 0) + DebitPence(Tail(txs))

RECURSIVE SumOfSeq(_)
SumOfSeq(s) == IF s = <<>> THEN 0 ELSE s[1] + SumOfSeq(Tail(s))

BucketPence(cats) ==
    SumOfSeq([k \in 1..Len(cats.keys) |->
                SumOfSeq([i \in 1..Len(cats.map[cats.keys[k]]) |->
                            cats.map[cats.keys[k]][i].amount])])

StoredCount(cats) ==
    SumOfSeq([k \in 1..Len(cats.keys) |-> Len(cats.map[cats.keys[k]])])

\* the amount in hundredths that a text of the form £d...d.dd shows
DigitValue(c) == (CHOOSE i \in 1..10 : Digits[i] = c) - 1

RECURSIVE DigitsValue(_)
DigitsValue(s) ==
    IF s = <<>> THEN 0
    ELSE 10 * DigitsValue(SubSeq(s, 1, Len(s) - 1)) + DigitValue(s[Len(s)])

IsPoundsText(s) ==
    /\ Len(s) >= 5
    /\ s[1] = "£"
    /\ s[Len(s) - 2] = "."
    /\ \A i \in (2..Len(s)) \ {Len(s) - 2} : s[i] \in Range(Digits)
    /\ Len(s) > 5 => s[2] # "0"

PoundsValue(s) ==
    100 * DigitsValue(SubSeq(s, 2, Len(s) - 3)) + DigitsValue(SubSeq(s, Len(s) - 1, Len(s)))

\* the cells of category k in row i of the sheet
DescCell(i, k) == df.rows[i][2 * k - 1]

AmountCell(i, k) == df.rows[i][2 * k]

Bucket(k) == categories.map[categories.keys[k]]

DataRows == 1..(Len(df.rows) - 1)

IsSubtotalCell(c, k) == c = Str(<<Sigma, " ">> \o DisplayNames[k])

\* C1: whenever categorize_transactions has run on a transaction list, the
\* expenses held by the buckets add up to the pence of all debits of the list.
C1_DebitTotalPreserved ==
    (CategorizeReturned \/ CategorizeRaised)
        => BucketPence(categories) = DebitPence(transactions)

\* On the runs where categorize_transactions returns, the total is kept.
C1_TotalWhenReturned ==
    CategorizeReturned => BucketPence(categories) = DebitPence(transactions)

\* C2: a transaction with a zero or positive amount is never stored and never
\* makes the categorizer fail, whatever its category; every stored expense
\* has a strictly positive amount.
C2_OnlyDebitsStored ==
    /\ \A key \in DOMAIN categories.map :
         \A i \in DOMAIN categories.map[key] : categories.map[key][i].amount > 0
    /\ StoredCount(categories) <= Cardinality(Debits)
    /\ (Debits = {} /\ (CategorizeReturned \/ CategorizeRaised))
          => (CategorizeReturned /\ StoredCount(categories) = 0)
    /\ CategorizeRaised
          => \E i \in Debits :
                /\ "category" \in DOMAIN transactions[i]
                /\ transactions[i].category \notin Range(all_categories)

C2_Witness ==
    /\ pc = "save_to_excel"
    /\ StoredCount(categories) = 1
    /\ \E i \in DOMAIN transactions :
         /\ transactions[i].amount >= 0
         /\ "category" \in DOMAIN transactions[i]
         /\ transactions[i].category = <<"g","e","n","e","r","a","l">>

\* C3: categorize_transactions never fails on a category outside the seven
\* buckets; the run goes on.
C3_NoLookupFailure == ~CategorizeRaised

\* C4: the sheet has 14 columns, two per known category in the order of the
\* enumeration, every row is 14 cells wide, and there is one row more than the
\* longest category has entries, its subtotal counted.
C4_GridShape ==
    pc = "done" =>
        /\ Len(df.columns) = 14
        /\ \A k \in 1..7 : /\ df.columns[2 * k - 1] = DisplayNames[k]
                           /\ df.columns[2 * k] = <<"£", " ">> \o DisplayNames[k]
        /\ \A i \in DOMAIN df.rows : Len(df.rows[i]) = 14
        /\ \E k \in 1..7 : Len(df.rows) = (Len(Bucket(k)) + 1) + 1
        /\ \A k \in 1..7 : Len(df.rows) >= (Len(Bucket(k)) + 1) + 1
        /\ xlsx.columns = df.columns /\ xlsx.rows = df.rows

C4_Witness ==
    /\ pc = "done"
    /\ Len(Bucket(1)) = 0
    /\ Len(Bucket(7)) = 2
    /\ Len(df.rows) = 4

\* C5: when the fetch returns no transaction (an empty answer or a status
\* other than 200) the run stops at the no-transactions message with nothing
\* categorized and no sheet written; a sheet exists only after a fetch that
\* returned a transaction.
C5_EarlyStop ==
    /\ (FetchReturned /\ transactions = <<>>)
          => /\ pc = "no_transactions"
             /\ categories = EmptyDict
             /\ df = NoFile
             /\ xlsx = NoFile
             /\ console[Len(console)].msg = "No transactions found."
    /\ (FetchReturned /\ fetchStatus # 200) => transactions = <<>>
    /\ pc = "no_transactions" => transactions = <<>>
    /\ xlsx # NoFile => (transactions # <<>> /\ fetchStatus = 200)

C5_Witness ==
    /\ pc = "no_transactions"
    /\ fetchStatus = 401
    /\ xlsx = NoFile

\* C6: whatever the identity endpoint answers, main goes on to the fetch.
C6_AuthNeverAborts ==
    [][pc = "test_authentication" => pc' = "fetch_transactions"]_vars

\* C7: in the column pair of every category the row after its expenses holds
\* its subtotal entry, whose amount is the sum of the amounts above it and of
\* the bucket; no other row of the pair holds a subtotal entry.
C7_SubtotalLast ==
    pc = "done" =>
        \A k \in 1..7 :
            LET n == Len(Bucket(k))
            IN  /\ n + 1 \in DataRows
                /\ IsSubtotalCell(DescCell(n + 1, k), k)
                /\ AmountCell(n + 1, k).t = "str"
                /\ IsPoundsText(AmountCell(n + 1, k).s)
                /\ PoundsValue(AmountCell(n + 1, k).s)
                     = SumOfSeq([i \in 1..n |-> AmountCell(i, k).v])
                /\ PoundsValue(AmountCell(n + 1, k).s)
                     = SumOfSeq([i \in 1..n |-> Bucket(k)[i].amount])
                /\ \A i \in 1..n : AmountCell(i, k).t = "float"
                /\ \A i \in DataRows \ {n + 1} :
                     /\ ~IsSubtotalCell(DescCell(i, k), k)
                     /\ AmountCell(i, k).t # "str" \/ AmountCell(i, k) = EmptyCell

C7_Witness ==
    /\ pc = "done"
    /\ Len(Bucket(1)) = 2
    /\ Bucket(1)[1].amount # Bucket(1)[2].amount
    /\ AmountCell(3, 1) = Str(<<"£","1","2",".","5","5">>)
    /\ AmountCell(1, 7) = Str(<<"£","0",".","0","0">>)

\* C8: the last row is the grand-total row: the label, the grand total, then
\* empty cells; the grand total is the sum of the subtotals shown and the sum
\* of every stored expense; no other row starts with the label.
C8_GrandTotalRow ==
    pc = "done" =>
        LET last == df.rows[Len(df.rows)]
        IN  /\ last[1] = Str(TotalLabel)
            /\ last[2].t = "str"
            /\ IsPoundsText(last[2].s)
            /\ \A j \in 3..14 : last[j] = EmptyCell
            /\ PoundsValue(last[2].s)
                 = SumOfSeq([k \in 1..7 |-> PoundsValue(AmountCell(Len(Bucket(k)) + 1, k).s)])
            /\ PoundsValue(last[2].s) = BucketPence(categories)
            /\ \A i \in DataRows : df.rows[i][1] # Str(TotalLabel)

C8_Witness ==
    /\ pc = "done"
    /\ Len(Bucket(1)) = 1
    /\ Len(Bucket(7)) = 1
    /\ df.rows[Len(df.rows)][2] = Str(<<"£","1","2",".","5","5">>)

\* C9: in the data rows the column pair of category c holds c's i-th entry in
\* row i while c has one, and two empty cells below.
C9_RowsAligned ==
    pc = "done" =>
        \A k \in 1..7 : \A i \in DataRows :
            LET n == Len(Bucket(k))
            IN  /\ i <= n => /\ DescCell(i, k) = Str(Bucket(k)[i].description)
                             /\ AmountCell(i, k) = Float(Bucket(k)[i].amount)
                /\ i = n + 1 => /\ IsSubtotalCell(DescCell(i, k), k)
                                /\ AmountCell(i, k) # EmptyCell
                /\ i > n + 1 => /\ DescCell(i, k) = EmptyCell
                                /\ AmountCell(i, k) = EmptyCell

C9_Witness ==
    /\ pc = "done"
    /\ Len(Bucket(1)) = 2
    /\ Len(Bucket(7)) = 0
    /\ DescCell(3, 7) = EmptyCell
    /\ AmountCell(2, 1).t = "float"

\* C10: when every debit carries a key of the enumeration or none, the
\* categorizer returns the seven display names in order, and each bucket
\* holds, in input order, exactly the debits of its own category, each with
\* the first 18 characters of its description and its amount made positive.
HasListedCategory(t) ==
    "category" \in DOMAIN t => t.category \in Range(all_categories)

OwnBucket(t) ==
    IF "category" \in DOMAIN t
    THEN CHOOSE k \in 1..7 : all_categories[k] = t.category
    ELSE 7

RECURSIVE ExpectedBucket(_, _)
ExpectedBucket(txs, k) ==
    IF txs = <<>> THEN <<>>
    ELSE LET t == txs[1]
             d == IF "description" \in DOMAIN t THEN t.description ELSE NoDescription
         IN  (IF t.amount < 0 /\ OwnBucket(t) = k
              THEN <<[description |-> IF Len(d) > 18 THEN SubSeq(d, 1, 18) ELSE d,
                      amount |-> 0 - t.amount]>>
              ELSE <<>>) \o ExpectedBucket(Tail(txs), k)

C10_Bucketing ==
    ((CategorizeReturned \/ CategorizeRaised)
        /\ \A i \in Debits : HasListedCategory(transactions[i]))
      => /\ CategorizeReturned
         /\ categories.keys = DisplayNames
         /\ DOMAIN categories.map = Range(DisplayNames)
         /\ \A k \in 1..7 : categories.map[DisplayNames[k]] = ExpectedBucket(transactions, k)

C10_Witness ==
    /\ pc = "save_to_excel"
    /\ Len(transactions) = 2
    /\ \A i \in 1..2 : /\ transactions[i].amount < 0
                       /\ "category" \in DOMAIN transactions[i]
                       /\ transactions[i].category = all_categories[1]
    /\ transactions[1].amount # transactions[2].amount
    /\ "description" \in DOMAIN transactions[1]
    /\ Len(transactions[1].description) > 18
    /\ Len(categories.map[DisplayNames[1]][1].description) = 18

====
